---- MODULE Spec2Model ----
(***************************************************************************)
(* Model of the CSV database seeder (src/src/database/populate.py) and of  *)
(* the session it drives (src/src/database/session_sqlite.py).             *)
(*                                                                         *)
(* Strings of the CSV are sequences of one-character strings, so that the  *)
(* text operations of the preprocessor (whitespace removal, split, strip,  *)
(* sort, join, date parsing and formatting) are computed, not assumed.     *)
(***************************************************************************)
EXTENDS Integers, Sequences, FiniteSets, TLC

\* ------------------------------------------------------------------ bounds

\* Largest number of data rows of the source CSV.
MaxRows == 3

\* populate.py:35 sets CHUNK_SIZE = 1000; the model scales the batch size
\* down so that lists of MaxRows records and a handful of natural keys cross
\* batch boundaries.
CHUNK_SIZE == 2

\* ------------------------------------------------------------- characters

NBSP == "_"                       \* stands for U+00A0 (non-breaking space)
COMMA == ","
Whitespace == {" ", NBSP}         \* what \s and str.strip() treat as blank
Digits == {"0", "1", "2", "3", "4", "5", "6", "7", "8", "9"}

\* Code-point order of the characters used (Python compares str by code point).
Rank(c) ==
    CASE c = " " -> 32
      [] c = COMMA -> 44
      [] c = "-" -> 45
      [] c \in Digits -> 48 + (CHOOSE n \in 0..9 : <<"0", "1", "2", "3", "4", "5", "6", "7", "8", "9">>[n + 1] = c)
      [] c = "S" -> 83
      [] c = "U" -> 85
      [] c = "a" -> 97
      [] c = "b" -> 98
      [] c = "c" -> 99
      [] c = "k" -> 107
      [] c = "n" -> 110
      [] c = "o" -> 111
      [] c = "w" -> 119
      [] c = NBSP -> 160
      [] OTHER -> 200

\* A missing value (NaN / NaT) of a DataFrame cell.
NaN == <<"NaN">>

Unknown == <<"U", "n", "k", "n", "o", "w", "n">>

\* --------------------------------------------------------- text operators

\* re.sub over a character class: drop every character of C.
RemoveChars(s, C) == SelectSeq(s, LAMBDA c : c \notin C)

\* str.split(','): the tokens between commas; "" splits into [""].
RECURSIVE SplitOn(_, _)
SplitOn(s, sep) ==
    IF \A i \in 1..Len(s) : s[i] # sep
    THEN <<s>>
    ELSE LET k == CHOOSE i \in 1..Len(s) :
                      s[i] = sep /\ \A j \in 1..(i - 1) : s[j] # sep
         IN  <<SubSeq(s, 1, k - 1)>> \o SplitOn(SubSeq(s, k + 1, Len(s)), sep)

\* str.strip(): drop leading and trailing whitespace.
RECURSIVE Strip(_)
Strip(s) ==
    IF s = <<>> THEN s
    ELSE IF s[1] \in Whitespace THEN Strip(Tail(s))
    ELSE IF s[Len(s)] \in Whitespace THEN Strip(SubSeq(s, 1, Len(s) - 1))
    ELSE s

\* ','.join(tokens)
RECURSIVE Join(_)
Join(toks) ==
    IF toks = <<>> THEN <<>>
    ELSE IF Len(toks) = 1 THEN toks[1]
    ELSE toks[1] \o <<COMMA>> \o Join(Tail(toks))

\* a < b for str (lexicographic by code point, a proper prefix is smaller).
RECURSIVE StrLess(_, _)
StrLess(a, b) ==
    IF b = <<>> THEN FALSE
    ELSE IF a = <<>> THEN TRUE
    ELSE IF a[1] # b[1] THEN Rank(a[1]) < Rank(b[1])
    ELSE StrLess(Tail(a), Tail(b))

\* sorted(S) for a set of str.
RECURSIVE Sorted(_)
Sorted(S) ==
    IF S = {} THEN <<>>
    ELSE LET m == CHOOSE x \in S : \A y \in S \ {x} : StrLess(x, y)
         IN  <<m>> \o Sorted(S \ {m})

Range(f) == {f[i] : i \in DOMAIN f}

\* ------------------------------------------------------------------ dates

DigitVal(c) == CHOOSE n \in 0..9 : <<"0", "1", "2", "3", "4", "5", "6", "7", "8", "9">>[n + 1] = c
DigitChar(n) == <<"0", "1", "2", "3", "4", "5", "6", "7", "8", "9">>[n + 1]

RECURSIVE ToInt(_)
ToInt(s) == IF s = <<>> THEN 0 ELSE 10 * ToInt(SubSeq(s, 1, Len(s) - 1)) + DigitVal(s[Len(s)])

IsLeap(y) == (y % 4 = 0 /\ y % 100 # 0) \/ y % 400 = 0

DaysInMonth(y, m) ==
    IF m = 2 THEN (IF IsLeap(y) THEN 29 ELSE 28)
    ELSE IF m \in {4, 6, 9, 11} THEN 30 ELSE 31

AllDigits(s) == \A i \in 1..Len(s) : s[i] \in Digits

\* pd.to_datetime(x, format='%Y-%m-%d', errors='coerce') followed by .dt.date:
\* a four-digit year, then month and day of one or two digits each (the
\* ISO-8601 parser takes the second digit as optional after a separator);
\* anything else, and a missing value, is NaT.
ParseDate(s) ==
    IF s = NaN THEN NaN
    ELSE LET parts == SplitOn(s, "-")
         IN  IF /\ Len(parts) = 3
                /\ Len(parts[1]) = 4
                /\ Len(parts[2]) \in {1, 2}
                /\ Len(parts[3]) \in {1, 2}
                /\ \A i \in 1..3 : AllDigits(parts[i])
             THEN LET y == ToInt(parts[1])
                      m == ToInt(parts[2])
                      d == ToInt(parts[3])
                  IN  IF m \in 1..12 /\ y >= 1 /\ d >= 1 /\ d <= DaysInMonth(y, m)
                      THEN <<y, m, d>>
                      ELSE NaN
             ELSE NaN

TwoDigits(n) == <<DigitChar(n \div 10), DigitChar(n % 10)>>

\* str(datetime.date): zero-padded YYYY-MM-DD, as to_csv writes the column.
FormatDate(dt) ==
    <<DigitChar(dt[1] \div 1000), DigitChar((dt[1] \div 100) % 10),
      DigitChar((dt[1] \div 10) % 10), DigitChar(dt[1] % 10)>>
    \o <<"-">> \o TwoDigits(dt[2]) \o <<"-">> \o TwoDigits(dt[3])

\* ------------------------------------------------------------ CSV content

\* Raw cells of the source file.  The empty cell <<>> is what read_csv
\* loads as a missing value.
D_padded == <<"2", "0", "2", "0", "-", "0", "1", "-", "0", "5">>
D_unpadded == <<"2", "0", "2", "0", "-", "1", "-", "5">>
D_other == <<"2", "0", "2", "1", "-", "0", "2", "-", "0", "3">>
D_invalid == <<"2", "0", "2", "4", "-", "1", "3", "-", "4", "0">>

RowPool ==
    { [names |-> <<"a">>, date_x |-> D_padded, country |-> <<"U", "S">>,
       genre |-> <<"a", ",", " ", "b">>, crew |-> <<"b", ",", " ", "a", ",", " ", "a">>,
       orig_lang |-> <<" ", "a">>, status |-> <<" ", "a", " ">>],
      [names |-> <<"a">>, date_x |-> D_unpadded, country |-> <<"U", "S">>,
       genre |-> <<"a", ",">>, crew |-> <<>>,
       orig_lang |-> <<"a">>, status |-> <<"a">>],
      [names |-> <<"b">>, date_x |-> D_other, country |-> <<>>,
       genre |-> <<"b", NBSP, ",", "b">>, crew |-> <<"b", ",", "a">>,
       orig_lang |-> <<" ">>, status |-> <<>>],
      [names |-> <<"b">>, date_x |-> D_invalid, country |-> <<"U", "S">>,
       genre |-> <<"a">>, crew |-> <<"a">>,
       orig_lang |-> <<"a">>, status |-> <<"a">>],
      [names |-> <<"a">>, date_x |-> D_padded, country |-> <<"S">>,
       genre |-> <<"b">>, crew |-> <<"b">>,
       orig_lang |-> <<"b">>, status |-> <<"b">>],
      [names |-> <<"c">>, date_x |-> D_other, country |-> <<"S">>,
       genre |-> <<"a", ",", "a">>, crew |-> <<"a", ",", ",", "b">>,
       orig_lang |-> <<"a", ",", " ", "b">>, status |-> <<"a", " ", "b">>] }

RECURSIVE SeqsUpTo(_, _)
SeqsUpTo(S, n) ==
    IF n = 0 THEN {<<>>}
    ELSE LET shorter == SeqsUpTo(S, n - 1)
         IN  shorter \cup {Append(q, x) : q \in {p \in shorter : Len(p) = n - 1}, x \in S}

CsvFiles == SeqsUpTo(RowPool, MaxRows)

\* pd.read_csv: an empty field is loaded as NaN.
ReadCell(c) == IF c = <<>> THEN NaN ELSE c
ReadCsv(file) == [i \in 1..Len(file) |-> [col \in DOMAIN file[i] |-> ReadCell(file[i][col])]]

\* DataFrame.drop_duplicates(subset=['names', 'date_x'], keep='first'),
\* comparing the columns as loaded (date_x is still the raw text).
RECURSIVE DropDuplicates(_)
DropDuplicates(rows) ==
    IF rows = <<>> THEN <<>>
    ELSE LET init == SubSeq(rows, 1, Len(rows) - 1)
             last == rows[Len(rows)]
         IN  IF \E j \in 1..Len(init) :
                    init[j].names = last.names /\ init[j].date_x = last.date_x
             THEN DropDuplicates(init)
             ELSE Append(DropDuplicates(init), last)

FillNa(c) == IF c = NaN THEN Unknown ELSE c

\* Faulty variant of CleanCrew: the tokens keep their order and repeats.
CleanCrewAsWritten(c) == RemoveChars(c, Whitespace)

\* populate.py:55-59: remove whitespace, then dedup + sort + rejoin unless 'Unknown'.
CleanCrew(c) ==
    LET x == RemoveChars(c, Whitespace)
    IN  IF x # Unknown THEN Join(Sorted(Range(SplitOn(x, COMMA)))) ELSE x

CleanGenre(c) == RemoveChars(c, {NBSP})
CleanLang(c) == RemoveChars(c, Whitespace)
CleanStatus(c) == Strip(c)

CleanRow(r) ==
    [names |-> r.names,
     date_x |-> ParseDate(r.date_x),
     country |-> FillNa(r.country),
     genre |-> CleanGenre(FillNa(r.genre)),
     crew |-> CleanCrew(FillNa(r.crew)),
     orig_lang |-> CleanLang(FillNa(r.orig_lang)),
     status |-> CleanStatus(FillNa(r.status))]

\* data.dropna(subset=['date_x'])
DropNaDates(rows) == SelectSeq(rows, LAMBDA r : r.date_x # NaN)

\* _preprocess_csv: the cleaned DataFrame.
PreprocessCsv(file) ==
    LET deduped == DropDuplicates(ReadCsv(file))
    IN  DropNaDates([i \in 1..Len(deduped) |-> CleanRow(deduped[i])])

\* data.to_csv(path, index=False): the cleaned rows as written back.
WriteCell(c) == IF c = NaN THEN <<>> ELSE c
ToCsv(data) ==
    [i \in 1..Len(data) |->
        [col \in DOMAIN data[i] |->
            IF col = "date_x" THEN FormatDate(data[i].date_x) ELSE WriteCell(data[i][col])]]

\* --------------------------------------------------------------- database

\* Largest number of runs of the entry point against one database.
MaxRuns == 2

\* UserGroupEnum: the fixed role names.
UserGroupEnum == <<"user", "moderator", "admin">>

RefTables == <<"countries", "genres", "actors", "languages">>
AssocTables == <<"movies_genres", "actors_movies", "movies_languages">>
IdTables == {"user_groups", "countries", "genres", "actors", "languages", "movies"}

EmptyStore ==
    [user_groups |-> {}, countries |-> {}, genres |-> {}, actors |-> {},
     languages |-> {}, movies |-> {},
     movies_genres |-> <<>>, actors_movies |-> <<>>, movies_languages |-> <<>>]

Max(S) == CHOOSE x \in S : \A y \in S : y <= x
Min2(a, b) == IF a < b THEN a ELSE b

\* The identifier an autoincrement primary key gives the next row.
NextId(rows) == IF rows = {} THEN 1 ELSE Max({r.id : r \in rows}) + 1

\* insert(table).values(rows): rows get consecutive identifiers, in order.
RECURSIVE InsertRows(_, _)
InsertRows(rows, values) ==
    IF values = <<>> THEN rows
    ELSE InsertRows(rows \cup {[id |-> NextId(rows)] @@ values[1]}, Tail(values))

\* Statements the session sends: kind is "select", "insert", "flush" or "commit".
SelectOp == [kind |-> "select", table |-> "", rows |-> <<>>]
FlushOp == [kind |-> "flush", table |-> "", rows |-> <<>>]
InsertOp(table, values) == [kind |-> "insert", table |-> table, rows |-> values]

\* The effect of one statement on the transaction's view of the tables.
ApplyOp(view, op) ==
    IF op.kind = "insert"
    THEN IF op.table \in IdTables
         THEN [view EXCEPT ![op.table] = InsertRows(@, op.rows)]
         ELSE [view EXCEPT ![op.table] = @ \o op.rows]
    ELSE view

RECURSIVE Exec(_, _)
Exec(view, ops) == IF ops = <<>> THEN view ELSE Exec(ApplyOp(view, ops[1]), Tail(ops))

Kinds(ops) == [i \in 1..Len(ops) |-> ops[i].kind]

\* Faulty variant of Chunk: the slice stops one item short (list[i:i + CHUNK_SIZE - 1]).
ChunkShort(list, i) == SubSeq(list, i + 1, Min2(i + CHUNK_SIZE - 1, Len(list)))

\* list[i:i + CHUNK_SIZE]
Chunk(list, i) == SubSeq(list, i + 1, Min2(i + CHUNK_SIZE, Len(list)))
NumChunks(n) == (n + CHUNK_SIZE - 1) \div CHUNK_SIZE

\* ------------------------------------------------------------- the seeder

\* select(model).where(field.in_(chunk)), merged into a dict keyed by the field.
SelectIn(rows, chunk) ==
    [k \in {r.key : r \in {x \in rows : x.key \in Range(chunk)}} |->
        CHOOSE r \in rows : r.key = k]

\* populate.py:91-99: the rows found for the candidates, chunk by chunk.
RECURSIVE ExistingFrom(_, _, _)
ExistingFrom(rows, items, i) ==
    IF i >= Len(items) THEN <<>>
    ELSE SelectIn(rows, Chunk(items, i)) @@ ExistingFrom(rows, items, i + CHUNK_SIZE)

\* Faulty variant of ExistingDict: only the first chunk of candidates is looked up.
ExistingDictFirstChunk(rows, items) == SelectIn(rows, Chunk(items, 0))

ExistingDict(rows, items) == ExistingFrom(rows, items, 0)

\* Faulty variant of NewItems: every candidate is taken as new.
NewItemsUnfiltered(rows, items) == items

\* populate.py:101
NewItems(rows, items) ==
    SelectSeq(items, LAMBDA item : item \notin DOMAIN ExistingDict(rows, items))

\* populate.py:104-108: one insert and one flush per chunk of new records.
RECURSIVE InsertOpsFrom(_, _, _)
InsertOpsFrom(table, new_items, i) ==
    IF i >= Len(new_items) THEN <<>>
    ELSE LET chunk == Chunk(new_items, i)
         IN  <<InsertOp(table, [j \in 1..Len(chunk) |-> [key |-> chunk[j]]]), FlushOp>>
             \o InsertOpsFrom(table, new_items, i + CHUNK_SIZE)

\* The statements of one _get_or_create_bulk call, in the order issued.
GetOrCreateOps(view, table, items) ==
    LET new_items == NewItems(view[table], items)
    IN  [c \in 1..NumChunks(Len(items)) |-> SelectOp]
        \o InsertOpsFrom(table, new_items, 0)
        \o [c \in 1..NumChunks(Len(new_items)) |-> SelectOp]

\* Faulty variant of GetOrCreateResult: the new rows are not selected again.
GetOrCreateResultNoReselect(before, after, table, items) ==
    ExistingDict(before[table], items)

\* The dict a completed _get_or_create_bulk call returns: the rows found first,
\* overwritten by the rows re-selected for the new items (populate.py:111-117).
GetOrCreateResult(before, after, table, items) ==
    ExistingFrom(after[table], NewItems(before[table], items), 0)
    @@ ExistingDict(before[table], items)

\* Faulty variant of Tokens: the empty tokens are kept.
TokensKeepEmpty(field) ==
    [i \in 1..Len(SplitOn(field, COMMA)) |-> Strip(SplitOn(field, COMMA)[i])]

\* token.strip() for each token of field.split(','), the empty ones dropped.
Tokens(field) ==
    SelectSeq([i \in 1..Len(SplitOn(field, COMMA)) |-> Strip(SplitOn(field, COMMA)[i])],
              LAMBDA t : t # <<>>)

\* list(data['country'].unique()): distinct values in order of first appearance.
RECURSIVE UniqueCountries(_)
UniqueCountries(df) ==
    IF df = <<>> THEN <<>>
    ELSE LET init == UniqueCountries(SubSeq(df, 1, Len(df) - 1))
             c == df[Len(df)].country
         IN  IF c \in Range(init) THEN init ELSE Append(init, c)

\* populate.py:141-143: the set of non-empty stripped tokens of a column.
TokenSet(df, col) == UNION {Range(Tokens(df[i][col])) : i \in 1..Len(df)}

\* list(a_set): the elements in some order.
Orderings(S) ==
    {q \in [1..Cardinality(S) -> S] : \A i, j \in DOMAIN q : i # j => q[i] # q[j]}

RefColumn == [genres |-> "genre", actors |-> "crew", languages |-> "orig_lang"]

\* The candidate lists _prepare_reference_data may pass for a table.
CandidateLists(df, table) ==
    IF table = "countries" THEN {UniqueCountries(df)}
    ELSE Orderings(TokenSet(df, RefColumn[table]))

NoMaps == [countries |-> <<>>, genres |-> <<>>, actors |-> <<>>, languages |-> <<>>]
NoAssociations == [movies_genres |-> <<>>, actors_movies |-> <<>>, movies_languages |-> <<>>]

\* _prepare_movies_data: one record per cleaned row; a country missing from
\* the map is a KeyError, reported in the field err.
PrepareMoviesData(df, country_map) ==
    IF \E i \in 1..Len(df) : df[i].country \notin DOMAIN country_map
    THEN [err |-> "KeyError", val |-> <<>>]
    ELSE [err |-> "none",
          val |-> [i \in 1..Len(df) |->
                     [name |-> df[i].names, date |-> df[i].date_x, status |-> df[i].status,
                      country_id |-> country_map[df[i].country].id]]]

\* The association rows of one category for row i (populate.py:177-190).
RowAssociations(movie_id, field, ref_map) ==
    [j \in 1..Len(Tokens(field)) |->
        [movie_id |-> movie_id, ref_id |-> ref_map[Tokens(field)[j]].id]]

\* Faulty variant of AssociationsFrom: movie_ids is read from the other end.
RECURSIVE AssociationsFromReversed(_, _, _, _, _)
AssociationsFromReversed(df, ids, col, ref_map, i) ==
    IF i > Len(df) THEN <<>>
    ELSE RowAssociations(ids[Len(df) + 1 - i], df[i][col], ref_map)
         \o AssociationsFromReversed(df, ids, col, ref_map, i + 1)

RECURSIVE AssociationsFrom(_, _, _, _, _)
AssociationsFrom(df, ids, col, ref_map, i) ==
    IF i > Len(df) THEN <<>>
    ELSE RowAssociations(ids[i], df[i][col], ref_map)
         \o AssociationsFrom(df, ids, col, ref_map, i + 1)

\* _prepare_associations: the three lists, or the error the lookups raise
\* (IndexError for a short movie_ids, KeyError for a token missing from a map).
PrepareAssociations(df, ids, ref_maps) ==
    IF Len(ids) < Len(df) THEN [err |-> "IndexError", val |-> NoAssociations]
    ELSE IF \E i \in 1..Len(df) : \E t \in DOMAIN RefColumn :
                \E tok \in Range(Tokens(df[i][RefColumn[t]])) : tok \notin DOMAIN ref_maps[t]
    THEN [err |-> "KeyError", val |-> NoAssociations]
    ELSE [err |-> "none",
          val |-> [movies_genres |-> AssociationsFrom(df, ids, "genre", ref_maps.genres, 1),
                   actors_movies |-> AssociationsFrom(df, ids, "crew", ref_maps.actors, 1),
                   movies_languages |->
                       AssociationsFrom(df, ids, "orig_lang", ref_maps.languages, 1)]]

\* _bulk_insert: one insert per chunk, then a single flush; nothing for an
\* empty list.
BulkInsertOps(table, data_list) ==
    IF Len(data_list) = 0 THEN <<>>
    ELSE [c \in 1..NumChunks(Len(data_list)) |->
            InsertOp(table, Chunk(data_list, (c - 1) * CHUNK_SIZE))]
         \o <<FlushOp>>

\* select(MovieModel.id).where(name == ..., date == ...): the matching ids.
MovieIdsByKey(view, movie) ==
    {r.id : r \in {x \in view.movies : x.name = movie.name /\ x.date = movie.date}}

\* -------------------------------------------------------- initial stores

\* Reference rows left by earlier use of the database.
StoreWithRefs ==
    [EmptyStore EXCEPT !.genres = {[id |-> 4, key |-> <<"b">>]},
                       !.countries = {[id |-> 2, key |-> <<"U", "S">>]},
                       !.actors = {[id |-> 7, key |-> <<"a">>]}]

StoreWithGroups ==
    [EmptyStore EXCEPT !.user_groups = InsertRows({}, [i \in 1..3 |-> [key |-> UserGroupEnum[i]]])]

\* A store an earlier run has seeded.
StorePopulated ==
    [StoreWithGroups EXCEPT
        !.countries = {[id |-> 1, key |-> <<"U", "S">>]},
        !.genres = {[id |-> 1, key |-> <<"a">>]},
        !.actors = {[id |-> 1, key |-> <<"a">>]},
        !.languages = {[id |-> 1, key |-> <<"a">>]},
        !.movies = {[id |-> 1, name |-> <<"b">>, date |-> <<2019, 3, 4>>,
                     status |-> <<"a">>, country_id |-> 1]},
        !.movies_genres = <<[movie_id |-> 1, ref_id |-> 1]>>,
        !.actors_movies = <<[movie_id |-> 1, ref_id |-> 1]>>,
        !.movies_languages = <<[movie_id |-> 1, ref_id |-> 1]>>]

InitialStores == {EmptyStore, StoreWithRefs, StoreWithGroups, StorePopulated}

\* ------------------------------------------------------------------ state

VARIABLES
    csv,          \* the file at PATH_TO_MOVIES_CSV
    committed,    \* the tables as committed to the database
    tx,           \* the tables as the session's transaction sees them
    inTx,         \* db_session.in_transaction()
    pc,           \* where main() / seed() stands
    exc,          \* the exception seed() raised, or "none"
    log,          \* stages entered and statements issued in this run
    data,         \* the cleaned DataFrame
    maps,         \* country_map, genre_map, actor_map, language_map
    movies_data,  \* the prepared movie records
    movie_ids,    \* the identifiers recovered so far
    assoc,        \* the three association lists
    step,         \* index of the loop the current stage is in
    runs,         \* runs of main() started
    store0,       \* committed tables when this run started
    outcome,      \* how this run of main() ended, "none" while it runs
    r_table,      \* resolver harness: the entity kind resolved
    r_items,      \* resolver harness: the candidate natural keys
    r_calls,      \* resolver harness: completed _get_or_create_bulk calls
    r_first,      \* resolver harness: the dict the first call returned
    r_second,     \* resolver harness: the dict the second call returned
    r_rows1,      \* resolver harness: the table after the first call
    worker,       \* the function a worker thread is running, or "idle"
    h_in,         \* preprocessing harness: the raw value handed in
    h_out,        \* preprocessing harness: the results so far
    user_profiles,  \* committed rows of the user_profiles table
    storage,      \* the avatar files held by the S3 storage
    req,          \* the create_profile requests being served
    user_id_unique  \* whether the user_profiles schema makes user_id unique

vars == <<csv, committed, tx, inTx, pc, exc, log, data, maps, movies_data,
          movie_ids, assoc, step, runs, store0, outcome,
          r_table, r_items, r_calls, r_first, r_second, r_rows1,
          worker, h_in, h_out, user_profiles, storage, req, user_id_unique>>

hvars == <<h_in, h_out>>

pvars == <<user_profiles, storage, req, user_id_unique>>

\* No request is being served and nothing is stored for profiles.
NoProfiles ==
    /\ user_profiles = {}
    /\ storage = <<>>
    /\ req = <<>>
    /\ user_id_unique = FALSE

NoHarness == h_in = <<>> /\ h_out = <<>>

rvars == <<r_table, r_items, r_calls, r_first, r_second, r_rows1>>

\* What the seeder never touches.
others == <<rvars, hvars, pvars>>

locals == <<data, maps, movies_data, movie_ids, assoc, step>>

Init ==
    /\ csv \in CsvFiles
    /\ committed \in InitialStores
    /\ tx = committed
    /\ inTx = FALSE
    /\ pc = "main"
    /\ exc = "none"
    /\ log = <<>>
    /\ data = <<>>
    /\ maps = NoMaps
    /\ movies_data = <<>>
    /\ movie_ids = <<>>
    /\ assoc = NoAssociations
    /\ step = 0
    /\ runs = 1
    /\ store0 = committed
    /\ outcome = "none"
    /\ r_table = "countries"
    /\ r_items = <<>>
    /\ r_calls = 0
    /\ r_first = <<>>
    /\ r_second = <<>>
    /\ r_rows1 = {}
    /\ worker = "idle"
    /\ NoHarness
    /\ NoProfiles

\* The stage's statements all succeed.
Succeeds(stage, ops) ==
    /\ tx' = Exec(tx, ops)
    /\ inTx' = (inTx \/ ops # <<>>)
    /\ log' = log \o stage \o Kinds(ops)
    /\ UNCHANGED <<exc, committed>>

\* Statement f of the stage raises a data-layer error: the statements before
\* it have taken effect in the transaction, and seed() re-raises
\* (populate.py:235-237) without touching the session.
Raises(stage, ops, f) ==
    /\ tx' = Exec(tx, SubSeq(ops, 1, f - 1))
    /\ inTx' = TRUE
    /\ log' = log \o stage \o Kinds(SubSeq(ops, 1, f))
    /\ exc' = "SQLAlchemyError"
    /\ pc' = "raised"
    /\ UNCHANGED committed

\* ---------------------------------------------------------------- actions

\* Faulty variant of IsDbPopulated: main() seeds when the store is populated.
IsDbPopulatedInverted ==
    /\ pc = "main"
    /\ Succeeds(<<"is_db_populated">>, <<SelectOp>>)
    /\ pc' = IF tx.movies # {} THEN "seed" ELSE "skipped"
    /\ UNCHANGED <<others, worker, csv, locals, runs, store0, outcome>>

\* main(): a session is opened and is_db_populated() selects one movie row.
\* An error here is not caught by main(): it leaves the context manager,
\* which closes the session.
IsDbPopulated ==
    /\ pc = "main"
    /\ \/ /\ Succeeds(<<"is_db_populated">>, <<SelectOp>>)
          /\ pc' = IF tx.movies # {} THEN "skipped" ELSE "seed"
          /\ UNCHANGED outcome
       \/ /\ tx' = committed
          /\ inTx' = FALSE
          /\ log' = log \o <<"is_db_populated", "select">>
          /\ pc' = "exited"
          /\ outcome' = "crashed"
          /\ UNCHANGED <<exc, committed>>
    /\ UNCHANGED <<others, worker, csv, locals, runs, store0>>

\* seed(), populate.py:196-197: roll back the transaction the session is in.
SeedBegin ==
    /\ pc = "seed"
    /\ tx' = IF inTx THEN committed ELSE tx
    /\ inTx' = FALSE
    /\ log' = log \o <<"seed">> \o (IF inTx THEN <<"rollback">> ELSE <<>>)
    /\ pc' = "user_groups"
    /\ UNCHANGED <<others, worker, csv, committed, exc, locals, runs, store0, outcome>>

\* Faulty variant of SeedUserGroups: the groups are committed once flushed.
SeedUserGroupsCommits ==
    /\ pc = "user_groups"
    /\ LET ops == <<SelectOp>> \o
                  (IF tx.user_groups = {}
                   THEN <<InsertOp("user_groups",
                                   [i \in 1..Len(UserGroupEnum) |-> [key |-> UserGroupEnum[i]]]),
                          FlushOp>>
                   ELSE <<>>)
       IN  /\ tx' = Exec(tx, ops)
           /\ committed' = tx'
           /\ inTx' = FALSE
           /\ log' = log \o <<"user_groups">> \o Kinds(ops)
           /\ pc' = "preprocess"
           /\ UNCHANGED exc
    /\ UNCHANGED <<others, worker, csv, locals, runs, store0, outcome>>

\* _seed_user_groups(): count the groups; insert and flush them if there are none.
SeedUserGroups ==
    /\ pc = "user_groups"
    /\ LET ops == <<SelectOp>> \o
                  (IF tx.user_groups = {}
                   THEN <<InsertOp("user_groups",
                                   [i \in 1..Len(UserGroupEnum) |-> [key |-> UserGroupEnum[i]]]),
                          FlushOp>>
                   ELSE <<>>)
       IN  \/ /\ Succeeds(<<"user_groups">>, ops)
              /\ pc' = "preprocess"
           \/ \E f \in 1..Len(ops) : Raises(<<"user_groups">>, ops, f)
    /\ UNCHANGED <<others, worker, csv, locals, runs, store0, outcome>>

\* await asyncio.to_thread(...) (populate.py:202, 205, 224-226): the function
\* is handed to a worker thread and the coroutine is suspended until the
\* thread has returned.
ToThread ==
    /\ pc \in {"preprocess", "movies_prep", "assoc_prep"}
    /\ worker = "idle"
    /\ worker' = pc
    /\ UNCHANGED <<others, csv, committed, tx, inTx, pc, exc, log, locals, runs, store0,
                   outcome>>

\* The worker thread runs _preprocess_csv: clean the file and write it back.
Preprocess ==
    /\ pc = "preprocess"
    /\ worker = "preprocess"
    /\ worker' = "idle"
    /\ data' = PreprocessCsv(csv)
    /\ csv' = ToCsv(data')
    /\ log' = Append(log, "preprocess")
    /\ pc' = "references"
    /\ step' = 1
    /\ UNCHANGED <<others, committed, tx, inTx, exc, maps, movies_data, movie_ids, assoc,
                   runs, store0, outcome>>

\* _prepare_reference_data(): the step-th of its four _get_or_create_bulk calls.
PrepareReferenceData ==
    /\ pc = "references"
    /\ LET table == RefTables[step]
           marker == IF step = 1 THEN <<"references">> ELSE <<>>
       IN  \E items \in CandidateLists(data, table) :
             LET ops == GetOrCreateOps(tx, table, items)
             IN  \/ /\ Succeeds(marker, ops)
                    /\ maps' = [maps EXCEPT ![table] = GetOrCreateResult(tx, tx', table, items)]
                    /\ step' = IF step < Len(RefTables) THEN step + 1 ELSE 0
                    /\ pc' = IF step < Len(RefTables) THEN "references" ELSE "movies_prep"
                 \/ /\ \E f \in 1..Len(ops) : Raises(marker, ops, f)
                    /\ UNCHANGED <<maps, step>>
    /\ UNCHANGED <<others, worker, csv, data, movies_data, movie_ids, assoc, runs, store0, outcome>>

\* sessionmaker(..., expire_on_commit=False), session_sqlite.py:27-31.
ExpireOnCommit == FALSE

\* The rows held in the maps were loaded by the selects of the "references"
\* stage; the session expires them when it rolls back, and when it commits
\* if expire_on_commit is set.
RowsExpired(l) ==
    \E i, j \in 1..Len(l) :
        /\ i < j
        /\ l[i] = "references"
        /\ l[j] = "rollback" \/ (ExpireOnCommit /\ l[j] = "commit")

\* Reading row.id (populate.py:164, 180, 185, 190) n times: a loaded attribute
\* is read from the object; an expired one makes the session select it again.
AttributeAccess(l, n) == IF RowsExpired(l) /\ n > 0 THEN <<"select">> ELSE <<>>

\* Faulty variant of PrepareMovies: the worker thread looks the countries up
\* through the session.
PrepareMoviesQueries ==
    /\ pc = "movies_prep"
    /\ worker = "movies_prep"
    /\ worker' = "idle"
    /\ LET r == PrepareMoviesData(data, maps.countries)
       IN  /\ movies_data' = r.val
           /\ exc' = r.err
           /\ pc' = IF r.err # "none" THEN "raised"
                    ELSE IF Len(r.val) = 0 THEN "assoc_prep" ELSE "movies_insert"
    /\ log' = log \o <<"movies_prep">> \o [i \in 1..Len(data) |-> "select"]
    /\ step' = 0
    /\ UNCHANGED <<others, csv, committed, tx, inTx, data, maps, movie_ids, assoc,
                   runs, store0, outcome>>

\* The worker thread runs _prepare_movies_data(data, country_map), which reads
\* country.id of the rows in the map.
PrepareMovies ==
    /\ pc = "movies_prep"
    /\ worker = "movies_prep"
    /\ worker' = "idle"
    /\ LET r == PrepareMoviesData(data, maps.countries)
       IN  /\ movies_data' = r.val
           /\ exc' = r.err
           /\ pc' = IF r.err # "none" THEN "raised"
                    ELSE IF Len(r.val) = 0 THEN "assoc_prep" ELSE "movies_insert"
    /\ log' = log \o <<"movies_prep">> \o AttributeAccess(log, Len(data))
    /\ step' = 0
    /\ UNCHANGED <<others, csv, committed, tx, inTx, data, maps, movie_ids, assoc,
                   runs, store0, outcome>>

\* One iteration of the loop of populate.py:209-222: insert the chunk at
\* offset step, flush, then select each movie's id by (name, date).
\* scalar_one() raises unless exactly one row matches.
InsertMoviesChunk ==
    /\ pc = "movies_insert"
    /\ LET chunk == Chunk(movies_data, step)
           after == ApplyOp(tx, InsertOp("movies", chunk))
           bad == {j \in 1..Len(chunk) : Cardinality(MovieIdsByKey(after, chunk[j])) # 1}
           nsel == IF bad = {} THEN Len(chunk) ELSE Max({0 - j : j \in bad}) * (0 - 1)
           ops == <<InsertOp("movies", chunk), FlushOp>> \o [j \in 1..nsel |-> SelectOp]
           marker == IF step = 0 THEN <<"movies_insert">> ELSE <<>>
           ids(n) == [j \in 1..n |-> CHOOSE id \in MovieIdsByKey(after, chunk[j]) : TRUE]
       IN  \/ /\ bad = {}
              /\ Succeeds(marker, ops)
              /\ movie_ids' = movie_ids \o ids(Len(chunk))
              /\ step' = step + CHUNK_SIZE
              /\ pc' = IF step + CHUNK_SIZE < Len(movies_data)
                       THEN "movies_insert" ELSE "assoc_prep"
           \/ \E f \in 1..Len(ops) :
                /\ Raises(marker, ops, f)
                /\ movie_ids' = movie_ids \o ids(IF f > 3 THEN f - 3 ELSE 0)
                /\ UNCHANGED step
    /\ UNCHANGED <<others, worker, csv, data, maps, movies_data, assoc, runs, store0, outcome>>

\* The worker thread runs _prepare_associations(data, movie_ids, maps...),
\* which reads the id of the rows in the three maps.
PrepareAssoc ==
    /\ pc = "assoc_prep"
    /\ worker = "assoc_prep"
    /\ worker' = "idle"
    /\ LET r == PrepareAssociations(data, movie_ids, maps)
       IN  /\ assoc' = r.val
           /\ exc' = r.err
           /\ pc' = IF r.err # "none" THEN "raised" ELSE "assoc_insert"
    /\ log' = log \o <<"assoc_prep">> \o AttributeAccess(log, Len(data))
    /\ step' = 1
    /\ UNCHANGED <<others, csv, committed, tx, inTx, data, maps, movies_data, movie_ids,
                   runs, store0, outcome>>

\* Faulty variant of BulkInsert: each association table is committed once flushed.
BulkInsertCommits ==
    /\ pc = "assoc_insert"
    /\ LET table == AssocTables[step]
           ops == BulkInsertOps(table, assoc[table])
       IN  /\ tx' = Exec(tx, ops)
           /\ committed' = tx'
           /\ inTx' = FALSE
           /\ log' = log \o (IF step = 1 THEN <<"assoc_insert">> ELSE <<>>)
                         \o Kinds(ops) \o <<"commit">>
           /\ step' = IF step < Len(AssocTables) THEN step + 1 ELSE 0
           /\ pc' = IF step < Len(AssocTables) THEN "assoc_insert" ELSE "commit"
           /\ UNCHANGED exc
    /\ UNCHANGED <<others, worker, csv, data, maps, movies_data, movie_ids, assoc, runs, store0, outcome>>

\* The step-th of the three _bulk_insert calls of populate.py:228-230.
BulkInsert ==
    /\ pc = "assoc_insert"
    /\ LET table == AssocTables[step]
           ops == BulkInsertOps(table, assoc[table])
           marker == IF step = 1 THEN <<"assoc_insert">> ELSE <<>>
       IN  \/ /\ Succeeds(marker, ops)
              /\ step' = IF step < Len(AssocTables) THEN step + 1 ELSE 0
              /\ pc' = IF step < Len(AssocTables) THEN "assoc_insert" ELSE "commit"
           \/ /\ \E f \in 1..Len(ops) : Raises(marker, ops, f)
              /\ UNCHANGED step
    /\ UNCHANGED <<others, worker, csv, data, maps, movies_data, movie_ids, assoc, runs, store0, outcome>>

\* await self._db_session.commit() (populate.py:232).  A commit that fails
\* leaves the database as it was; the session may or may not have discarded
\* the transaction by the time the error is raised.
Commit ==
    /\ pc = "commit"
    /\ log' = log \o <<"commit">>
    /\ \/ /\ committed' = tx
          /\ inTx' = FALSE
          /\ pc' = "returned"
          /\ UNCHANGED <<tx, exc>>
       \/ /\ \E discarded \in BOOLEAN :
                /\ tx' = IF discarded THEN committed ELSE tx
                /\ inTx' = ~discarded
          /\ exc' = "SQLAlchemyError"
          /\ pc' = "raised"
          /\ UNCHANGED committed
    /\ UNCHANGED <<others, worker, csv, locals, runs, store0, outcome>>

\* main() reports the result (populate.py:250-254) and leaves the context
\* manager, which closes the session: what was not committed is discarded.
MainExit ==
    /\ pc \in {"returned", "raised", "skipped"}
    /\ tx' = committed
    /\ inTx' = FALSE
    /\ outcome' = pc
    /\ pc' = "exited"
    /\ UNCHANGED <<others, worker, csv, committed, exc, log, locals, runs, store0>>

\* The entry point is run again on the same file and database.
RunAgain ==
    /\ pc = "exited"
    /\ runs < MaxRuns
    /\ runs' = runs + 1
    /\ pc' = "main"
    /\ exc' = "none"
    /\ log' = <<>>
    /\ data' = <<>>
    /\ maps' = NoMaps
    /\ movies_data' = <<>>
    /\ movie_ids' = <<>>
    /\ assoc' = NoAssociations
    /\ step' = 0
    /\ store0' = committed
    /\ outcome' = "none"
    /\ UNCHANGED <<others, worker, csv, committed, tx, inTx>>

Next ==
    \/ IsDbPopulated
    \/ SeedBegin
    \/ SeedUserGroups
    \/ ToThread
    \/ Preprocess
    \/ PrepareReferenceData
    \/ PrepareMovies
    \/ InsertMoviesChunk
    \/ PrepareAssoc
    \/ BulkInsert
    \/ Commit
    \/ MainExit
    \/ RunAgain

Spec == Init /\ [][Next]_vars

\* ------------------------------------------------ the resolver on its own

\* Longest candidate list handed to _get_or_create_bulk in the harness.
MaxItems == 3

KeyPool == {<<"a">>, <<"b">>, <<"c">>, <<"a", " ">>}

\* Rows a reference table may hold before the call (natural keys unique).
PriorRows ==
    { {},
      {[id |-> 4, key |-> <<"b">>]},
      {[id |-> 7, key |-> <<"a">>], [id |-> 2, key |-> <<"c">>]} }

\* Duplicate-free lists of at most n keys: what list(unique()) and list(set)
\* hand to the resolver.
DistinctLists(S, n) ==
    {q \in SeqsUpTo(S, n) : \A i, j \in DOMAIN q : i # j => q[i] # q[j]}

InitResolve ==
    /\ r_table \in Range(RefTables)
    /\ r_items \in DistinctLists(KeyPool, MaxItems)
    /\ \E rows \in PriorRows : committed = [EmptyStore EXCEPT ![r_table] = rows]
    /\ tx = committed
    /\ store0 = committed
    /\ r_calls = 0
    /\ r_first = <<>>
    /\ r_second = <<>>
    /\ r_rows1 = {}
    /\ csv = <<>>
    /\ inTx = FALSE
    /\ pc = "resolve"
    /\ exc = "none"
    /\ log = <<>>
    /\ data = <<>>
    /\ maps = NoMaps
    /\ movies_data = <<>>
    /\ movie_ids = <<>>
    /\ assoc = NoAssociations
    /\ step = 0
    /\ runs = 1
    /\ outcome = "none"
    /\ worker = "idle"
    /\ NoHarness
    /\ NoProfiles

\* await self._get_or_create_bulk(model, items, unique_field), called for the
\* first and then for the second time with the same arguments.
GetOrCreateBulk ==
    /\ pc = "resolve"
    /\ r_calls < 2
    /\ LET ops == GetOrCreateOps(tx, r_table, r_items)
           result == GetOrCreateResult(tx, tx', r_table, r_items)
       IN  \/ /\ Succeeds(<<"get_or_create">>, ops)
              /\ r_calls' = r_calls + 1
              /\ r_first' = IF r_calls = 0 THEN result ELSE r_first
              /\ r_second' = IF r_calls = 1 THEN result ELSE r_second
              /\ r_rows1' = IF r_calls = 0 THEN tx'[r_table] ELSE r_rows1
              /\ UNCHANGED pc
           \/ /\ \E f \in 1..Len(ops) : Raises(<<"get_or_create">>, ops, f)
              /\ UNCHANGED <<r_calls, r_first, r_second, r_rows1>>
    /\ UNCHANGED <<r_table, r_items, hvars, pvars, worker, csv, locals, runs, store0,
                   outcome>>

NextResolve == GetOrCreateBulk

SpecResolve == InitResolve /\ [][NextResolve]_vars

\* ------------------------------------------------ preprocessing on its own

\* The seeder, its session and the resolver harness are not running.
SeederAtRest ==
    /\ committed = EmptyStore
    /\ tx = committed
    /\ store0 = committed
    /\ inTx = FALSE
    /\ exc = "none"
    /\ log = <<>>
    /\ data = <<>>
    /\ maps = NoMaps
    /\ movies_data = <<>>
    /\ movie_ids = <<>>
    /\ assoc = NoAssociations
    /\ step = 0
    /\ runs = 1
    /\ outcome = "none"
    /\ worker = "idle"
    /\ r_table = "countries"
    /\ r_items = <<>>
    /\ r_calls = 0
    /\ r_first = <<>>
    /\ r_second = <<>>
    /\ r_rows1 = {}

\* Longest crew cell enumerated character by character.
MaxCrewLen == 4

CrewAlphabet == {"a", "b", COMMA, " "}

\* The crew cells handed to the cleaning: every text over the alphabet up to
\* the bound, the spellings around 'Unknown', and "b, a, a".
CrewValues ==
    SeqsUpTo(CrewAlphabet, MaxCrewLen)
    \cup {Unknown, <<" ">> \o Unknown, Unknown \o <<COMMA, "a">>,
          <<"U", "n", " ">> \o <<"k", "n", "o", "w", "n">>,
          <<"b", COMMA, " ", "a", COMMA, " ", "a">>, <<"a", NBSP, "b">>}

InitCrew ==
    /\ h_in \in CrewValues
    /\ h_out = <<>>
    /\ pc = "crew"
    /\ csv = <<>>
    /\ SeederAtRest
    /\ NoProfiles

\* populate.py:49-59 for one crew cell: load it, fill NaN, clean it.
CleanCrewColumn ==
    /\ pc = "crew"
    /\ h_out' = <<CleanCrew(FillNa(ReadCell(h_in)))>>
    /\ pc' = "cleaned"
    /\ UNCHANGED <<rvars, pvars, worker, h_in, csv, committed, tx, inTx, exc, log, locals,
                   runs, store0, outcome>>

NextCrew == CleanCrewColumn

SpecCrew == InitCrew /\ [][NextCrew]_vars

InitRewrite ==
    /\ csv \in CsvFiles
    /\ NoHarness
    /\ pc = "rewrite"
    /\ SeederAtRest
    /\ NoProfiles

\* _preprocess_csv run on the file as it stands: the cleaned rows are kept
\* and written back over the file (populate.py:76).
PreprocessFile ==
    /\ pc = "rewrite"
    /\ Len(h_out) < 2
    /\ h_out' = Append(h_out, PreprocessCsv(csv))
    /\ csv' = ToCsv(PreprocessCsv(csv))
    /\ UNCHANGED <<rvars, pvars, worker, h_in, committed, tx, inTx, pc, exc, log, locals,
                   runs, store0, outcome>>

NextRewrite == PreprocessFile

SpecRewrite == InitRewrite /\ [][NextRewrite]_vars

\* ------------------------------------------------- the create_profile route

\* Requests served at the same time.
MaxRequests == 2

\* header is None when the request carries no Authorization header.
None == <<"None">>

Bearer == <<"B", "e", "a", "r", "e", "r">>

\* str.split(): the pieces between runs of whitespace.
SplitWs(s) ==
    SelectSeq(SplitOn([i \in 1..Len(s) |-> IF s[i] \in Whitespace THEN " " ELSE s[i]], " "),
              LAMBDA t : t # <<>>)

\* jwt_manager.decode_access_token(token), as create_profile uses it
\* (profiles.py:70-84): the token "x" has expired, a token of digits carries
\* that user_id, any other token is invalid.
DecodeAccessToken(token) ==
    IF token = <<"x">> THEN [err |-> "TokenExpiredError", user_id |-> 0]
    ELSE IF AllDigits(token) THEN [err |-> "none", user_id |-> ToInt(token)]
    ELSE [err |-> "InvalidTokenError", user_id |-> 0]

\* The users table: an active user, an active administrator, an inactive user.
UsersTable ==
    [u \in {1, 2, 3} |->
        [is_active |-> u # 3, group |-> IF u = 2 THEN "admin" ELSE "user"]]

\* The path user_id of a request; 4 is the id of no user.
PathIds == {1, 2, 3, 4}

\* Authorization headers: absent, without a token, of another scheme, with an
\* expired and with an invalid token.
HeadersWithoutToken ==
    { None,
      Bearer,
      <<"B", "a", "s", "i", "c", " ", "2">>,
      Bearer \o <<" ", "x">>,
      Bearer \o <<" ", "i">> }

\* Authorization headers with the token of user 1, of the administrator and
\* of a user_id that no user has.
HeadersWithToken ==
    { Bearer \o <<" ", "1">>,
      Bearer \o <<" ", " ", "2">>,
      Bearer \o <<" ", "4">> }

\* A request as it arrives: nothing decided, nothing done.  token_user_id
\* and profile are the handler's locals (user.profile as loaded); status is
\* the response code, 0 until answered; uploaded and created record what
\* the request stored; stale records that the user had a profile row when
\* the request stored its avatar or committed.
NewRequest(header, user_id, avatar) ==
    [header |-> header, user_id |-> user_id, avatar |-> avatar,
     pc |-> "start", status |-> 0, token_user_id |-> 0,
     profile |-> FALSE, uploaded |-> FALSE, created |-> 0, stale |-> FALSE]

\* The requests served: every header with a token for every path user, with
\* an avatar and, for the active users, without one; the other headers for
\* user 1 with an avatar.
RequestPool ==
    {NewRequest(h, u, TRUE) : h \in HeadersWithToken, u \in PathIds}
    \cup {NewRequest(h, u, FALSE) : h \in HeadersWithToken, u \in {1, 2}}
    \cup {NewRequest(h, 1, TRUE) : h \in HeadersWithoutToken}

InitProfile ==
    /\ req \in [1..MaxRequests -> RequestPool]
    /\ user_profiles = {}
    /\ storage = <<>>
    /\ user_id_unique \in BOOLEAN
    /\ pc = "serve"
    /\ csv = <<>>
    /\ NoHarness
    /\ SeederAtRest

\* raise HTTPException(status_code=code) / return with 201.
Answer(r, code) == [r EXCEPT !.pc = "done", !.status = code]

\* select(UserModel).options(joinedload(UserModel.profile)): user.profile is
\* set when the table holds a row for the user.
HasProfile(rows, user_id) == \E p \in rows : p.user_id = user_id

\* profiles.py:112-135: 400 for a user whose profile was loaded with it,
\* otherwise on to the upload, or to the insert when no avatar was sent.
CheckProfile(r) ==
    IF r.profile THEN Answer(r, 400)
    ELSE [r EXCEPT !.pc = IF r.avatar THEN "upload" ELSE "commit"]

\* scalar_one_or_none() of the group query when it has no row.
NoGroup == "None"

\* Faulty variant of Forbidden: every known user may edit any profile.
ForbiddenUnlessKnown(token_user_group_name) == token_user_group_name = NoGroup

\* profiles.py:105: only the group "admin" may edit another user's profile.
Forbidden(token_user_group_name) == token_user_group_name # "admin"

\* What belongs to the seeder and its session.
seeder == <<csv, committed, tx, inTx, pc, exc, log, locals, runs, store0, outcome, worker>>

\* profiles.py:57-84: the header checks and the decoding of the token.
Authenticate ==
    \E i \in DOMAIN req :
        /\ req[i].pc = "start"
        /\ LET header == req[i].header
               parts == SplitWs(header)
           IN  req' = [req EXCEPT ![i] =
                    IF header = None \/ header = <<>> THEN Answer(@, 401)
                    ELSE IF Len(parts) # 2 \/ parts[1] # Bearer THEN Answer(@, 401)
                    ELSE IF DecodeAccessToken(parts[2]).err # "none" THEN Answer(@, 401)
                    ELSE [@ EXCEPT !.pc = "select_user",
                                   !.token_user_id = DecodeAccessToken(parts[2]).user_id]]
        /\ UNCHANGED <<user_profiles, storage, user_id_unique, rvars, hvars, seeder>>

\* profiles.py:86-116 when the token is the path user's own: the user is
\* selected together with its profile; 404, or the profile check.
\* profiles.py:86-99 otherwise: on to the query for the token user's group.
SelectUser ==
    \E i \in DOMAIN req :
        /\ req[i].pc = "select_user"
        /\ LET r == [req[i] EXCEPT !.profile = HasProfile(user_profiles, req[i].user_id)]
               found == r.user_id \in DOMAIN UsersTable
           IN  req' = [req EXCEPT ![i] =
                    IF ~found \/ ~UsersTable[r.user_id].is_active THEN Answer(r, 404)
                    ELSE IF r.token_user_id # r.user_id THEN [r EXCEPT !.pc = "select_group"]
                    ELSE CheckProfile(r)]
        /\ UNCHANGED <<user_profiles, storage, user_id_unique, rvars, hvars, seeder>>

\* profiles.py:100-116: the group name of the token's user (None when there
\* is no such user); 403 unless it may edit, then the profile check.
SelectGroup ==
    \E i \in DOMAIN req :
        /\ req[i].pc = "select_group"
        /\ LET r == req[i]
               token_user_group_name ==
                   IF r.token_user_id \in DOMAIN UsersTable
                   THEN UsersTable[r.token_user_id].group ELSE NoGroup
           IN  req' = [req EXCEPT ![i] =
                    IF Forbidden(token_user_group_name) THEN Answer(r, 403)
                    ELSE CheckProfile(r)]
        /\ UNCHANGED <<user_profiles, storage, user_id_unique, rvars, hvars, seeder>>

\* profiles.py:118-133: the avatar is stored under a name made of the path
\* user_id, replacing what is stored under it; a storage error is a 500.
UploadAvatar ==
    \E i \in DOMAIN req :
        /\ req[i].pc = "upload"
        /\ LET r == [req[i] EXCEPT !.stale = @ \/ HasProfile(user_profiles, req[i].user_id)]
           IN  \/ /\ storage' = (r.user_id :> i) @@ storage
                  /\ req' = [req EXCEPT ![i] = [r EXCEPT !.pc = "commit", !.uploaded = TRUE]]
               \/ /\ req' = [req EXCEPT ![i] = Answer(r, 500)]
                  /\ UNCHANGED storage
        /\ UNCHANGED <<user_profiles, user_id_unique, rvars, hvars, seeder>>

\* profiles.py:137-148: the profile row is added and committed, and the
\* request answered 201.  Where the schema makes user_id unique, the commit
\* of a second row for the user raises, which the handler does not catch.
CommitProfile ==
    \E i \in DOMAIN req :
        /\ req[i].pc = "commit"
        /\ LET r == [req[i] EXCEPT !.stale = @ \/ HasProfile(user_profiles, req[i].user_id)]
           IN  IF user_id_unique /\ HasProfile(user_profiles, r.user_id)
               THEN /\ req' = [req EXCEPT ![i] = Answer(r, 500)]
                    /\ UNCHANGED user_profiles
               ELSE /\ user_profiles' = user_profiles \cup
                           {[id |-> NextId(user_profiles), user_id |-> r.user_id,
                             avatar |-> r.uploaded]}
                    /\ req' = [req EXCEPT ![i] =
                                  [Answer(r, 201) EXCEPT !.created = NextId(user_profiles)]]
        /\ UNCHANGED <<storage, user_id_unique, rvars, hvars, seeder>>

\* A step of one of the requests.
NextProfile ==
    \/ Authenticate
    \/ SelectUser
    \/ SelectGroup
    \/ UploadAvatar
    \/ CommitProfile

SpecProfile == InitProfile /\ [][NextProfile]_vars

\* ----------------------------------------------------------------- claims

WriteKinds == {"insert", "flush", "commit"}
Count(q, x) == Cardinality({i \in 1..Len(q) : q[i] = x})

\* C1: when a statement of a seeding run raises a data-layer error, then once
\* the run has ended the database holds exactly what it held before the run:
\* no row the run wrote is visible, in the committed tables or in the session.
C1_FullRollback ==
    (pc = "exited" /\ outcome = "raised") => (committed = store0 /\ tx = store0)

\* A run that failed at an insert or a flush after having written groups,
\* reference rows and movies.
C1_Witness ==
    /\ pc = "exited"
    /\ outcome = "raised"
    /\ exc = "SQLAlchemyError"
    /\ log[Len(log)] \in {"insert", "flush"}
    /\ "movies_insert" \in Range(log)
    /\ Count(log, "insert") >= 3

\* C2: when seed() has raised, the transaction has been rolled back, so the
\* session holds no uncommitted write a later commit would persist; when it
\* has returned, what the session wrote is committed.
C2_ReleasedOnEveryExit ==
    /\ pc = "raised" => tx = committed
    /\ pc = "returned" => (committed = tx /\ ~inTx)

\* C3: the identifiers recovered so far are index-aligned with the prepared
\* records (movie_ids[i] is the id of the one stored row with record i's name
\* and date), and once movie insertion is over there is one per record.
C3_MovieIdsAligned ==
    pc \in {"movies_insert", "assoc_prep", "assoc_insert", "commit", "returned"} =>
        /\ Len(movie_ids) <= Len(movies_data)
        /\ \A i \in 1..Len(movie_ids) :
              {r.id : r \in {x \in tx.movies : x.name = movies_data[i].name
                                               /\ x.date = movies_data[i].date}}
              = {movie_ids[i]}
        /\ pc # "movies_insert" => Len(movie_ids) = Len(movies_data)

\* All movies of a list longer than one chunk are inserted.
C3_Witness ==
    /\ pc = "assoc_prep"
    /\ Len(movies_data) > CHUNK_SIZE
    /\ Len(movie_ids) = Len(movies_data)

\* C4: no two rows of the cleaned dataset have the same name and the same
\* parsed date.
C4_CleanedKeysUnique ==
    \A i, j \in 1..Len(data) :
        (data[i].names = data[j].names /\ data[i].date_x = data[j].date_x) => i = j

Keys(rows) == {r.key : r \in rows}

\* C5: the dict a completed _get_or_create_bulk call returns has exactly the
\* candidate strings as keys, each mapped to a row of the table whose natural
\* key is that string.
C5_MapCoversCandidates ==
    /\ r_calls >= 1 =>
          /\ DOMAIN r_first = Range(r_items)
          /\ \A k \in DOMAIN r_first : r_first[k].key = k /\ r_first[k] \in r_rows1
    /\ r_calls >= 2 =>
          /\ DOMAIN r_second = Range(r_items)
          /\ \A k \in DOMAIN r_second : r_second[k].key = k /\ r_second[k] \in tx[r_table]

\* A call over more candidates than one chunk holds, some found and some new.
C5_Witness ==
    /\ r_calls = 1
    /\ Len(r_items) > CHUNK_SIZE
    /\ Range(r_items) \cap Keys(committed[r_table]) # {}
    /\ Range(r_items) \ Keys(committed[r_table]) # {}

\* C6: in every reference table, as the transaction sees it and as committed,
\* a natural key has at most one row.
C6_OneRowPerKey ==
    \A t \in Range(RefTables) :
        /\ \A r1, r2 \in tx[t] : r1.key = r2.key => r1 = r2
        /\ \A r1, r2 \in committed[t] : r1.key = r2.key => r1 = r2

\* Reference resolution is over, in a store that held reference rows before;
\* it has found some rows and created others.
C6_Witness ==
    /\ pc = "movies_prep"
    /\ \E t \in Range(RefTables) :
          /\ store0[t] # {}
          /\ tx[t] # store0[t]
          /\ Keys(store0[t]) \cap DOMAIN maps[t] # {}

\* C7: the second of two calls with the same arguments returns, for every
\* key, the identifier the first call returned, and leaves the table as the
\* first call left it (it inserts no row).
C7_ResolveIdempotent ==
    r_calls = 2 =>
        /\ \A k \in Range(r_items) : r_second[k].id = r_first[k].id
        /\ tx[r_table] = r_rows1

\* Two calls, the first of which created rows for more than a chunk of keys.
C7_Witness ==
    /\ r_calls = 2
    /\ Len(r_items) > CHUNK_SIZE
    /\ r_rows1 # committed[r_table]

AssocRefTable == [movies_genres |-> "genres", actors_movies |-> "actors",
                  movies_languages |-> "languages"]
AssocColumn == [movies_genres |-> "genre", actors_movies |-> "crew",
                movies_languages |-> "orig_lang"]

\* C8: every association row written by the run carries the id of a movie
\* row written by the run and the id of a row of the reference table, and
\* that movie is the one of a cleaned row whose field holds the reference's key.
C8_AssociationsReferToTheirRow ==
    \A t \in Range(AssocTables) :
        \A n \in (Len(store0[t]) + 1)..Len(tx[t]) :
            \E i \in 1..Len(data) :
                /\ \E m \in tx.movies \ store0.movies :
                      /\ m.id = tx[t][n].movie_id
                      /\ m.name = data[i].names
                      /\ m.date = data[i].date_x
                /\ \E ref \in tx[AssocRefTable[t]] :
                      /\ ref.id = tx[t][n].ref_id
                      /\ ref.key \in Range(Tokens(data[i][AssocColumn[t]]))

\* All association rows of a run over several movies have been inserted.
C8_Witness ==
    /\ pc = "commit"
    /\ Len(movie_ids) >= 2
    /\ \A t \in Range(AssocTables) : Len(tx[t]) >= 2
    /\ \E i, j \in 1..Len(data) : Tokens(data[i].genre) # Tokens(data[j].genre)

\* C9: a run against a store that holds a movie row writes nothing: seed() is
\* not entered, no insert, flush or commit is issued, and the tables stay as
\* they were.
C9_PopulatedStoreUntouched ==
    store0.movies # {} =>
        /\ Range(log) \cap (WriteKinds \cup {"seed"}) = {}
        /\ committed = store0
        /\ tx = store0
        /\ pc \in {"main", "skipped", "exited"}

\* The second run after a run that seeded movies from the file has ended.
C9_Witness ==
    /\ runs = 2
    /\ pc = "exited"
    /\ outcome = "skipped"
    /\ \E m \in store0.movies : m.name = <<"a">>

StageOrder ==
    <<"is_db_populated", "seed", "user_groups", "preprocess", "references",
      "movies_prep", "movies_insert", "assoc_prep", "assoc_insert", "commit">>

Positions(q, x) == {i \in 1..Len(q) : q[i] = x}

StageNames == Range(StageOrder)
StageIndex(x) == CHOOSE k \in 1..Len(StageOrder) : StageOrder[k] = x

\* The stage markers of the log, in the order logged.
StageLog == SelectSeq(log, LAMBDA x : x \in StageNames)

\* C10: the stages of a run are entered in the fixed order, each once and
\* none skipped (movie insertion has nothing to do for an empty record list);
\* the rollback comes first in seed(); nothing is committed before the final
\* step; commit is issued at most once, as the last statement, after the
\* association inserts, and not after an error.
C10_StagesInOrder ==
    /\ LET stages == StageLog
       IN  \A n \in 1..Len(stages) :
              StageIndex(stages[n]) =
                  IF n = 1 THEN 1
                  ELSE IF stages[n] = "assoc_prep" /\ movies_data = <<>>
                       THEN StageIndex(stages[n - 1]) + 2
                       ELSE StageIndex(stages[n - 1]) + 1
    /\ \A i \in Positions(log, "rollback") : i > 1 /\ log[i - 1] = "seed"
    /\ \A i \in Positions(log, "seed") : i < Len(log) => log[i + 1] = "rollback"
    /\ \A i \in Positions(log, "commit") :
          /\ i = Len(log)
          /\ pc \in {"returned", "raised", "exited"}
          /\ outcome \in {"none", "returned", "raised"}
    /\ pc = "commit" =>
          \A t \in Range(AssocTables) : tx[t] = store0[t] \o assoc[t]
    /\ pc = "returned" =>
          /\ exc = "none"
          /\ log[Len(log)] = "commit"
          /\ \A t \in Range(AssocTables) : committed[t] = store0[t] \o assoc[t]
    /\ pc \notin {"returned", "exited"} => committed = store0
    /\ (pc = "exited" /\ outcome # "returned") => committed = store0

\* A run over several movies has gone through every stage and committed.
C10_Witness ==
    /\ pc = "returned"
    /\ Len(movies_data) > CHUNK_SIZE
    /\ StageLog = StageOrder
    /\ Count(log, "flush") >= 5

\* The comma-separated pieces of a cleaned field, as written.
Pieces(field) == SplitOn(field, COMMA)

\* A piece that is not empty and not only whitespace.
NonBlank(piece) == \E n \in 1..Len(piece) : piece[n] \notin Whitespace

\* The positions of the association rows of a join table that belong to
\* the movie of cleaned row i.
RowsOfMovie(t, i) == {n \in 1..Len(assoc[t]) : assoc[t][n].movie_id = movie_ids[i]}

AssocBuilt == pc \in {"assoc_insert", "commit", "returned"}

\* C12: once the association lists are built, every cleaned row has, in each
\* of the three join tables, as many association rows as its field has
\* non-blank comma-separated pieces, and for each reference key as many rows
\* as pieces that trim to that key; an empty or whitespace-only piece (a
\* trailing comma) gets no row.
C12_OneRowPerToken ==
    AssocBuilt =>
        \A t \in Range(AssocTables) : \A i \in 1..Len(data) :
            LET pieces == Pieces(data[i][AssocColumn[t]])
                ref_map == maps[AssocRefTable[t]]
            IN  /\ Cardinality(RowsOfMovie(t, i))
                     = Cardinality({j \in 1..Len(pieces) : NonBlank(pieces[j])})
                /\ \A k \in DOMAIN ref_map :
                     Cardinality({n \in RowsOfMovie(t, i) : assoc[t][n].ref_id = ref_map[k].id})
                       = Cardinality({j \in 1..Len(pieces) : Strip(pieces[j]) = k})
                /\ \A k \in DOMAIN ref_map : NonBlank(k)

\* A run built the lists from a genre field with a trailing comma and a crew
\* field with an empty piece in the middle.
C12_Witness ==
    /\ pc = "assoc_insert"
    /\ \E i \in 1..Len(data) : data[i].genre = <<"a", ",">>
    /\ \E i \in 1..Len(data) : <<>> \in Range(Pieces(data[i].crew))
    /\ Len(assoc.movies_genres) > 0

\* C16: within one join table the association builder emits no two rows with
\* the same (movie_id, ref_id) pair.
C16_NoDuplicatePairs ==
    AssocBuilt =>
        \A t \in Range(AssocTables) : \A m, n \in 1..Len(assoc[t]) :
            assoc[t][m] = assoc[t][n] => m = n

\* What the session sends to the database.
StatementKinds == {"select", "insert", "flush", "commit", "rollback"}
Statements(l) == SelectSeq(l, LAMBDA x : x \in StatementKinds)

\* C11: while a worker thread runs preprocessing, movie preparation or
\* association preparation, no step of the run uses the session: neither
\* the coroutine nor the thread issues a statement, and the transaction and
\* the committed tables stay as they are.
C11_SessionIdleWhileThreadRuns ==
    [][worker # "idle" =>
          /\ Statements(log') = Statements(log)
          /\ tx' = tx
          /\ inTx' = inTx
          /\ committed' = committed]_vars

\* A worker thread prepares the movies while the transaction holds the
\* reference rows it reads, and one builds associations from movie ids.
C11_Witness ==
    \/ /\ worker = "movies_prep"
       /\ inTx
       /\ maps.countries # <<>>
       /\ Len(data) > 1
    \/ /\ worker = "assoc_prep"
       /\ Len(movie_ids) > 1

\* C13: a crew value other than 'Unknown' comes out of preprocessing in
\* canonical form (no whitespace, its comma-separated tokens those of the
\* whitespace-free input, each once, in ascending order); 'Unknown' (also
\* what an empty cell is filled with) comes out unchanged.
C13_CrewCanonical ==
    pc = "cleaned" =>
        LET raw == FillNa(ReadCell(h_in))
            out == h_out[1]
            tokens == SplitOn(out, COMMA)
        IN  IF raw = Unknown THEN out = Unknown
            ELSE /\ \A n \in 1..Len(out) : out[n] \notin Whitespace
                 /\ \A j, k \in 1..Len(tokens) : j < k => StrLess(tokens[j], tokens[k])
                 /\ Range(tokens) = Range(SplitOn(RemoveChars(raw, Whitespace), COMMA))

\* "b, a, a" has become "a,b".
C13_Witness ==
    /\ pc = "cleaned"
    /\ h_in = <<"b", COMMA, " ", "a", COMMA, " ", "a">>
    /\ h_out = << <<"a", COMMA, "b">> >>

\* C17: preprocessing the file it has rewritten yields the cleaned rows of
\* the first run again.
C17_PreprocessIdempotent ==
    Len(h_out) = 2 => h_out[2] = h_out[1]

\* The rows of the user_profiles table that belong to a user.
ProfilesOf(user_id) == {p \in user_profiles : p.user_id = user_id}

\* C14: in every state reached by interleaved create_profile requests no
\* user has more than one profile row, and a request served for a user who
\* has a profile (loaded with the user, or committed by another request
\* before this one stored its avatar or committed) and not turned away with
\* 401, 403 or 404 is answered 400 and has stored no avatar and no row.
C14_AtMostOneProfile ==
    /\ \A u \in PathIds : Cardinality(ProfilesOf(u)) <= 1
    /\ \A i \in DOMAIN req :
          (req[i].profile \/ req[i].stale) /\ req[i].status \notin {0, 401, 403, 404}
             => /\ req[i].status = 400
                /\ ~req[i].uploaded
                /\ req[i].created = 0

\* The request carries 'Bearer <token>', the token decodes, and its user is
\* the path user or a user of the group "admin".
Authorized(r) ==
    /\ r.header # None
    /\ Len(SplitWs(r.header)) = 2
    /\ SplitWs(r.header)[1] = Bearer
    /\ LET token_data == DecodeAccessToken(SplitWs(r.header)[2])
       IN  /\ token_data.err = "none"
           /\ \/ token_data.user_id = r.user_id
              \/ /\ token_data.user_id \in DOMAIN UsersTable
                 /\ UsersTable[token_data.user_id].group = "admin"

\* Avatars and rows come from authorized requests only, and a request that
\* is not authorized has stored nothing and is answered with one of codes.
OnlyAuthorizedWrite(codes) ==
    /\ \A k \in DOMAIN storage : Authorized(req[storage[k]])
    /\ \A p \in user_profiles :
          \E i \in DOMAIN req : req[i].created = p.id /\ Authorized(req[i])
    /\ \A i \in DOMAIN req :
          ~Authorized(req[i])
             => /\ ~req[i].uploaded
                /\ req[i].created = 0
                /\ req[i].pc = "done" => req[i].status \in codes

\* C15 as stated: only an authorized request stores an avatar or a profile
\* row, and every other request ends in 401 or 403 having stored nothing.
C15_Unauthorized401Or403 == OnlyAuthorizedWrite({401, 403})

\* C15, amended: only an authorized request stores an avatar or a profile
\* row; every other request ends in 401, 403 or 404 having stored nothing,
\* and in 404 only when the path user does not exist or is not active.
C15_UnauthorizedStoresNothing ==
    /\ OnlyAuthorizedWrite({401, 403, 404})
    /\ \A i \in DOMAIN req :
          req[i].status = 404
             => \/ req[i].user_id \notin DOMAIN UsersTable
                \/ ~UsersTable[req[i].user_id].is_active

\* An administrator's request has created another user's profile with an
\* avatar, and a request that is not authorized has been turned away.
C15_Witness ==
    \E i, j \in DOMAIN req :
        /\ req[i].status = 201
        /\ req[i].uploaded
        /\ req[i].token_user_id # req[i].user_id
        /\ req[j].pc = "done"
        /\ ~Authorized(req[j])
        /\ req[j].status \in {403, 404}

====
